---- MODULE Spec2Model ----
(***************************************************************************)
(* View tracker (server/index.js): the scheduled sweep that polls the view *)
(* count of every active video, stores a sample, classifies the per-tick   *)
(* rate against the video's thresholds and sends de-duplicated alerts, and *)
(* the HTTP handlers that create videos and switch their status.           *)
(*                                                                         *)
(* The three tables of the migration are the variables videos, video_views *)
(* and notifications_log, with the user_id column the server writes and    *)
(* filters by.  Every await of the scheduled job is one step of            *)
(* a sweep, so two sweeps, the clock and the HTTP handlers interleave at   *)
(* the places where the Node event loop can interleave them.               *)
(* The variable events is a history variable: it records what each tick    *)
(* did and is read by the properties only, never by the actions.           *)
(***************************************************************************)
EXTENDS Integers, Sequences, FiniteSets, TLC

\* ---------------------------------------------------------------- bounds
MaxPeriods == 1
MaxViews == 2
MaxOps == 3
\* test requests in flight at one time
MaxTests == 1
\* the longest table of samples the history query is run on
MaxSamples == 63

\* ------------------------------------------------------ program constants
\* fiveMinutesAgo.setMinutes(getMinutes() - 5); the clock counts minutes
CooldownMinutes == 5
\* .limit(60) of the history query of GET /api/videos/:id
HistoryLimit == 60

\* --------------------------------------------------------------- inputs
VideoIds == {"v1", "v2"}
\* the users who send requests; only the owners add videos
Users == {"u1", "u2"}
Owners == {"u1"}
Sweeps == {1, 2}
Statuses == {"active", "paused"}
Channels == <<"email", "zalo", "sms">>

\* the instants of the clock, in minutes: one per cooldown period, so that
\* two readings are either less than one cooldown apart (the same instant) or
\* at least a whole cooldown apart
Instants == {k * CooldownMinutes : k \in 0..MaxPeriods}

\* request bodies of POST /api/videos (thresholds and notifications): one
\* the form of the client accepts, and one it rejects (thresholds below 1)
\* but the handler stores all the same
Bodies ==
  { [warningThreshold |-> 1, emergencyThreshold |-> 2,
     notifications |-> [emails |-> <<"a", "b">>, zaloIds |-> <<"z">>,
                        phoneNumbers |-> <<>>]],
    [warningThreshold |-> -1, emergencyThreshold |-> 0,
     notifications |-> [emails |-> <<>>, zaloIds |-> <<>>,
                        phoneNumbers |-> <<"p", "q">>]] }

VARIABLES
  now,                \* wall clock, in minutes
  videos,             \* table videos: id -> row
  video_views,        \* table video_views, in insertion order
  notifications_log,  \* table notifications_log, in insertion order
  adding,             \* videos whose POST /api/videos awaits the view count
  ticks,              \* number of cron firings so far
  requests,           \* number of HTTP requests so far
  sweep,              \* the running invocations of the scheduled job
  events,             \* history of what every tick did
  deleting,           \* DELETE /api/videos/:id requests in flight: id -> step
  testing,            \* POST /api/notifications/test requests in flight
  response            \* the body of the last answer of GET /api/videos/:id

\* the state of the HTTP handlers other than POST /api/videos
http == <<deleting, testing, response>>

vars == <<now, videos, video_views, notifications_log, adding, ticks,
          requests, sweep, events, http>>

\* the answer variable before any request for the details of a video
NoResponse == [status |-> 0, id |-> "", viewHistory |-> <<>>]

\* ------------------------------------------------------------- helpers
NoVideo ==
  [id |-> "", status |-> "", warning_threshold |-> 0,
   emergency_threshold |-> 0,
   notifications |-> [emails |-> <<>>, zaloIds |-> <<>>, phoneNumbers |-> <<>>],
   user_id |-> ""]

IdleSweep ==
  [pc |-> "idle", tick |-> 0, todo |-> <<>>, video |-> NoVideo,
   currentViews |-> 0, prevViewsData |-> <<>>, alertLevel |-> "",
   viewsPerMinute |-> 0, fiveMinutesAgo |-> 0, type |-> "", i |-> 0]

Ev(ev, tick, vid, level, type, recipient, val, ok) ==
  [ev |-> ev, tick |-> tick, video_id |-> vid, level |-> level,
   type |-> type, recipient |-> recipient, val |-> val, ok |-> ok]

SeqToSet(q) == {q[k] : k \in 1..Len(q)}

\* .from("video_views").eq("video_id", id).order("timestamp", desc).limit(n):
\* a sample is inserted with the current time as its timestamp, so the table
\* in insertion order is the table in timestamp order; the position of a row
\* stands for its timestamp and the newest rows are the last ones
RECURSIVE LatestViews(_, _, _)
LatestViews(table, id, n) ==
  IF n = 0 \/ table = <<>> THEN <<>>
  ELSE LET last == table[Len(table)]
           rest == SubSeq(table, 1, Len(table) - 1)
       IN IF last.video_id = id
          THEN <<last>> \o LatestViews(rest, id, n - 1)
          ELSE LatestViews(rest, id, n)

\* the all-permutations ordering of a finite set, the row order of a select
\* without ORDER BY
Orderings(S) ==
  {q \in [1..Cardinality(S) -> S] : \A a, b \in 1..Cardinality(S) :
      a # b => q[a] # q[b]}

\* the three recipient lists of sendAlerts, in the order the code walks them
Recipients(notifications, type) ==
  CASE type = "email" -> notifications.emails
    [] type = "zalo" -> notifications.zaloIds
    [] type = "sms" -> notifications.phoneNumbers
    [] OTHER -> <<>>

\* `if (notifications.xs && notifications.xs.length > 0)`: the first channel
\* at or after position c whose list is not empty, 0 if there is none
RECURSIVE NextChannel(_, _)
NextChannel(notifications, c) ==
  IF c > Len(Channels) THEN 0
  ELSE IF Len(Recipients(notifications, Channels[c])) > 0 THEN c
  ELSE NextChannel(notifications, c + 1)

ChannelIndex(type) == CHOOSE c \in 1..Len(Channels) : Channels[c] = type

\* the comparison with > in place of >=
AlertLevelStrict(viewsPerMinute, video) ==
  IF viewsPerMinute > video.emergency_threshold THEN "emergency"
  ELSE IF viewsPerMinute > video.warning_threshold THEN "warning"
  ELSE "normal"

\* the threshold comparison of the scheduled job (and of both queries)
AlertLevel(viewsPerMinute, video) ==
  IF viewsPerMinute >= video.emergency_threshold THEN "emergency"
  ELSE IF viewsPerMinute >= video.warning_threshold THEN "warning"
  ELSE "normal"

\* sendAlerts: threshold = emergency ? emergency_threshold : warning_threshold
ThresholdOf(video, alertLevel) ==
  IF alertLevel = "emergency" THEN video.emergency_threshold
  ELSE video.warning_threshold

\* the query with the time of the call in place of fiveMinutesAgo
RecentAlertsAfterCall(log, id, alertLevel, fiveMinutesAgo) ==
  {k \in 1..Len(log) :
      /\ log[k].video_id = id
      /\ log[k].alert_level = alertLevel
      /\ log[k].timestamp > fiveMinutesAgo + CooldownMinutes}

\* the query without .eq("alert_level", alertLevel)
RecentAlertsAnyLevel(log, id, alertLevel, fiveMinutesAgo) ==
  {k \in 1..Len(log) :
      /\ log[k].video_id = id
      /\ log[k].timestamp > fiveMinutesAgo}

\* the query with .gte("timestamp") in place of .gt("timestamp")
RecentAlertsInclusive(log, id, alertLevel, fiveMinutesAgo) ==
  {k \in 1..Len(log) :
      /\ log[k].video_id = id
      /\ log[k].alert_level = alertLevel
      /\ log[k].timestamp >= fiveMinutesAgo}

\* .from("notifications_log").eq("video_id").eq("alert_level").gt("timestamp")
RecentAlerts(log, id, alertLevel, fiveMinutesAgo) ==
  {k \in 1..Len(log) :
      /\ log[k].video_id = id
      /\ log[k].alert_level = alertLevel
      /\ log[k].timestamp > fiveMinutesAgo}

\* video_id text REFERENCES videos(id): the store takes a row of video_views
\* or notifications_log only while a video has the id
References(table, id) == id \in DOMAIN table

\* the outcome of one send: sendEmailNotification returns false when the
\* transport throws; the Zalo and SMS functions only log and return true
SendOutcomes(type) == IF type = "email" THEN BOOLEAN ELSE {TRUE}

\* ------------------------------------------------------------------ Init
Init ==
  /\ now = 0
  /\ videos = <<>>
  /\ video_views = <<>>
  /\ notifications_log = <<>>
  /\ adding = {}
  /\ ticks = 0
  /\ requests = 0
  /\ sweep = [s \in Sweeps |-> IdleSweep]
  /\ events = {}
  /\ deleting = <<>>
  /\ testing = {}
  /\ response = NoResponse

\* --------------------------------------------------------------- clock
AdvanceClock ==
  /\ \E t \in Instants :
       /\ t > now
       /\ \A u \in Instants : u > now => t <= u
       /\ now' = t
  /\ UNCHANGED <<http, videos, video_views, notifications_log, adding, ticks,
                 requests, sweep, events>>

\* ------------------------------------------------- POST /api/videos
\* the insert into videos; a duplicate id is rejected by the primary key and
\* the handler answers 500 without any write
AddVideo(id, user, body) ==
  /\ requests + ticks < MaxOps
  /\ requests' = requests + 1
  /\ id \notin DOMAIN videos
  /\ videos' = videos @@
       (id :> [id |-> id, status |-> "active",
               warning_threshold |-> body.warningThreshold,
               emergency_threshold |-> body.emergencyThreshold,
               notifications |-> body.notifications, user_id |-> user])
  /\ adding' = adding \cup {id}
  /\ UNCHANGED <<http, now, video_views, notifications_log, ticks, sweep, events>>

\* youtube.videos.list and the insert of the first sample
AddVideoSample(id, viewCount) ==
  /\ id \in adding
  /\ adding' = adding \ {id}
  /\ video_views' =
       IF References(videos, id)
       THEN Append(video_views,
              [video_id |-> id, views |-> viewCount, tick |-> 0])
       ELSE video_views
  /\ UNCHANGED <<http, now, videos, notifications_log, ticks, requests, sweep,
                 events>>

\* youtube.videos.list throws (or returns no item): 500, the video row stays
AddVideoFetchFails(id) ==
  /\ id \in adding
  /\ adding' = adding \ {id}
  /\ UNCHANGED <<http, now, videos, video_views, notifications_log, ticks,
                 requests, sweep, events>>

\* ------------------------------------------ PATCH /api/videos/:id/status
SetStatus(id, user, status) ==
  /\ status \in Statuses
  /\ id \in DOMAIN videos
  /\ videos[id].user_id = user
  /\ requests + ticks < MaxOps
  /\ requests' = requests + 1
  /\ videos' = [videos EXCEPT ![id].status = status]
  /\ UNCHANGED <<http, now, video_views, notifications_log, adding, ticks, sweep,
                 events>>

\* ------------------------------------------------- the scheduled job
\* `for (const video of videos)`: take the next listed video, or finish
NextVideo(sw) ==
  IF sw.todo = <<>> THEN IdleSweep
  ELSE [IdleSweep EXCEPT !.pc = "fetch", !.tick = sw.tick,
                         !.video = Head(sw.todo), !.todo = Tail(sw.todo)]

\* what the end of one video's run adds to the history
EndEvents(sw) ==
  {Ev("end", sw.tick, sw.video.id, "", "", "", Len(sw.todo), TRUE)} \cup
  (IF sw.todo = <<>> THEN {Ev("sweep_end", sw.tick, "", "", "", "", 0, TRUE)}
   ELSE {})

\* cron "* * * * *": a firing every minute, so any number of firings falls
\* between two instants of the clock; a firing starts a new invocation
\* whether or not an earlier one is still running
TickStart(s) ==
  /\ sweep[s].pc = "idle"
  /\ \A r \in Sweeps : r < s => sweep[r].pc # "idle"
  /\ requests + ticks < MaxOps
  /\ ticks' = ticks + 1
  /\ sweep' = [sweep EXCEPT ![s] = [IdleSweep EXCEPT !.pc = "list",
                                                    !.tick = ticks + 1]]
  /\ events' = events \cup {Ev("tick", ticks + 1, "", "", "", "", 0, TRUE)}
  /\ UNCHANGED <<http, now, videos, video_views, notifications_log, adding,
                 requests>>

\* the listing without .eq("status", "active")
ActiveVideosAll(table) == DOMAIN table

\* .from("videos").select("*").eq("status", "active"): the ids of the rows
ActiveVideos(table) == {id \in DOMAIN table : table[id].status = "active"}

\* the listing answers, in some row order; the loop starts with the first row
ListActive(s) ==
  /\ sweep[s].pc = "list"
  /\ LET active == ActiveVideos(videos)
     IN \E order \in Orderings(active) :
          LET rows == [k \in 1..Len(order) |-> videos[order[k]]]
              sw == [sweep[s] EXCEPT !.todo = rows]
          IN /\ sweep' = [sweep EXCEPT ![s] = NextVideo(sw)]
             /\ events' = events \cup
                  {Ev(IF id \in active THEN "list" ELSE "skip", sw.tick, id,
                      videos[id].status, "", "", 0, TRUE) : id \in DOMAIN videos}
                  \cup (IF active = {}
                        THEN {Ev("sweep_end", sw.tick, "", "", "", "", 0, TRUE)}
                        ELSE {})
  /\ UNCHANGED <<http, now, videos, video_views, notifications_log, adding, ticks,
                 requests>>

\* `if (error) throw error` of the listing: the outer catch ends the tick
ListFails(s) ==
  /\ sweep[s].pc = "list"
  /\ sweep' = [sweep EXCEPT ![s] = IdleSweep]
  /\ events' = events \cup
       {Ev("list_error", sweep[s].tick, "", "", "", "", 0, FALSE)}
  /\ UNCHANGED <<http, now, videos, video_views, notifications_log, adding, ticks,
                 requests>>

\* youtube.videos.list answers with the statistics of the video, then the
\* select of the previous sample (limit 1) answers.  The call to YouTube
\* reads and writes nothing of the store, so it is one step with the select.
FetchAndReadPrev(s, viewCount) ==
  /\ sweep[s].pc = "fetch"
  /\ LET prevViewsData == LatestViews(video_views, sweep[s].video.id, 1)
     IN /\ sweep' = [sweep EXCEPT ![s].pc = "insert",
                                  ![s].currentViews = viewCount,
                                  ![s].prevViewsData = prevViewsData]
  /\ UNCHANGED <<http, now, videos, video_views, notifications_log, adding, ticks,
                 requests, events>>

\* the failed fetch with the try/catch around the loop, not inside it: the
\* failure ends the whole sweep
FetchFailsAborts(s, reason) ==
  /\ sweep[s].pc = "fetch"
  /\ reason \in {"unreachable", "not_found"}
  /\ sweep' = [sweep EXCEPT ![s] = IdleSweep]
  /\ events' = events \cup
       {Ev("fetch", sweep[s].tick, sweep[s].video.id, "", "", "", 0, FALSE),
        Ev("end", sweep[s].tick, sweep[s].video.id, "", "", "",
           Len(sweep[s].todo), TRUE),
        Ev("sweep_end", sweep[s].tick, "", "", "", "", 0, TRUE)}
  /\ UNCHANGED <<http, now, videos, video_views, notifications_log, adding, ticks,
                 requests>>

\* the failed fetch that stores a sample of 0 views all the same
FetchFailsStoresZero(s, reason) ==
  /\ sweep[s].pc = "fetch"
  /\ reason \in {"unreachable", "not_found"}
  /\ sweep' = [sweep EXCEPT ![s] = NextVideo(sweep[s])]
  /\ video_views' = Append(video_views,
       [video_id |-> sweep[s].video.id, views |-> 0, tick |-> sweep[s].tick])
  /\ events' = events \cup
       {Ev("fetch", sweep[s].tick, sweep[s].video.id, "", "", "", 0, FALSE)}
       \cup EndEvents(sweep[s])
  /\ UNCHANGED <<http, now, videos, notifications_log, adding, ticks,
                 requests>>

\* the failed fetch that pauses the video it could not fetch
FetchFailsPauses(s, reason) ==
  /\ sweep[s].pc = "fetch"
  /\ reason \in {"unreachable", "not_found"}
  /\ sweep' = [sweep EXCEPT ![s] = NextVideo(sweep[s])]
  /\ videos' = [id \in DOMAIN videos |->
                  IF id = sweep[s].video.id
                  THEN [videos[id] EXCEPT !.status = "paused"]
                  ELSE videos[id]]
  /\ events' = events \cup
       {Ev("fetch", sweep[s].tick, sweep[s].video.id, "", "", "", 0, FALSE)}
       \cup EndEvents(sweep[s])
  /\ UNCHANGED <<http, now, video_views, notifications_log, adding, ticks,
                 requests>>

\* youtube.videos.list throws (per-video catch) or has no item (`continue`)
FetchFails(s, reason) ==
  /\ sweep[s].pc = "fetch"
  /\ reason \in {"unreachable", "not_found"}
  /\ sweep' = [sweep EXCEPT ![s] = NextVideo(sweep[s])]
  /\ events' = events \cup
       {Ev("fetch", sweep[s].tick, sweep[s].video.id, "", "", "", 0, FALSE)}
       \cup EndEvents(sweep[s])
  /\ UNCHANGED <<http, now, videos, video_views, notifications_log, adding, ticks,
                 requests>>

\* the failed select of the previous sample thrown past the loop: the outer
\* catch ends the sweep
ReadPrevFailsAborts(s) ==
  /\ sweep[s].pc = "fetch"
  /\ sweep' = [sweep EXCEPT ![s] = IdleSweep]
  /\ events' = events \cup
       {Ev("prev", sweep[s].tick, sweep[s].video.id, "", "", "", 0, FALSE),
        Ev("end", sweep[s].tick, sweep[s].video.id, "", "", "",
           Len(sweep[s].todo), TRUE),
        Ev("sweep_end", sweep[s].tick, "", "", "", "", 0, TRUE)}
  /\ UNCHANGED <<http, now, videos, video_views, notifications_log, adding, ticks,
                 requests>>

\* the fetch succeeds and the select of the previous sample fails:
\* `if (prevViewsError) throw prevViewsError`, caught per video
ReadPrevFails(s) ==
  /\ sweep[s].pc = "fetch"
  /\ sweep' = [sweep EXCEPT ![s] = NextVideo(sweep[s])]
  /\ events' = events \cup
       {Ev("prev", sweep[s].tick, sweep[s].video.id, "", "", "", 0, FALSE)}
       \cup EndEvents(sweep[s])
  /\ UNCHANGED <<http, now, videos, video_views, notifications_log, adding, ticks,
                 requests>>

\* the first recipient of the first non-empty channel at or after c, or the
\* end of sendAlerts
StartChannel(sw, c) ==
  LET n == NextChannel(sw.video.notifications, c)
  IN IF n = 0 THEN NextVideo(sw)
     ELSE [sw EXCEPT !.pc = "send", !.type = Channels[n], !.i = 1]

\* the insert of the new sample, then the threshold check up to the first
\* await of sendAlerts (the query for recent alerts).  The result of the
\* insert is not looked at: when the store rejects it (stored = FALSE) no row
\* is written and the job goes on as if it had been
InsertView(s, stored) ==
  /\ sweep[s].pc = "insert"
  /\ LET sw == sweep[s]
         video == sw.video
         viewsPerMinute == sw.currentViews - sw.prevViewsData[1].views
         alertLevel == AlertLevel(viewsPerMinute, video)
         accepted == stored /\ References(videos, video.id)
         sample == Ev("sample", sw.tick, video.id, "",
                      IF accepted THEN "stored" ELSE "rejected", "",
                      sw.currentViews, sw.prevViewsData # <<>>)
     IN /\ video_views' =
             IF accepted
             THEN Append(video_views,
                    [video_id |-> video.id, views |-> sw.currentViews,
                     tick |-> sw.tick])
             ELSE video_views
        /\ IF sw.prevViewsData = <<>>
           THEN /\ sweep' = [sweep EXCEPT ![s] = NextVideo(sw)]
                /\ events' = events \cup {sample} \cup EndEvents(sw)
           ELSE IF alertLevel = "normal"
           THEN /\ sweep' = [sweep EXCEPT ![s] = NextVideo(sw)]
                /\ events' = events \cup {sample} \cup EndEvents(sw) \cup
                     {Ev("classify", sw.tick, video.id, alertLevel, "", "",
                         viewsPerMinute, TRUE)}
           ELSE /\ sweep' = [sweep EXCEPT
                     ![s].pc = "check",
                     ![s].alertLevel = alertLevel,
                     ![s].viewsPerMinute = viewsPerMinute,
                     ![s].fiveMinutesAgo = now - CooldownMinutes]
                /\ events' = events \cup {sample} \cup
                     {Ev("classify", sw.tick, video.id, alertLevel, "", "",
                         viewsPerMinute, TRUE)}
  /\ UNCHANGED <<http, now, videos, notifications_log, adding, ticks, requests>>

\* the suppressed call that writes a row of its own into the log
CheckRecentLogsSuppression(s) ==
  /\ sweep[s].pc = "check"
  /\ LET sw == sweep[s]
         recentAlerts == RecentAlerts(notifications_log, sw.video.id,
                                      sw.alertLevel, sw.fiveMinutesAgo)
         next == IF recentAlerts # {} THEN NextVideo(sw)
                 ELSE StartChannel(sw, 1)
     IN /\ sweep' = [sweep EXCEPT ![s] = next]
        /\ notifications_log' =
             IF recentAlerts = {} THEN notifications_log
             ELSE Append(notifications_log,
                    [video_id |-> sw.video.id, type |-> "", recipient |-> "",
                     alert_level |-> sw.alertLevel, status |-> "suppressed",
                     timestamp |-> now,
                     views_per_minute |-> sw.viewsPerMinute,
                     threshold |-> ThresholdOf(sw.video, sw.alertLevel),
                     test |-> FALSE, tick |-> sw.tick])
        /\ events' = events \cup
             {Ev("check", sw.tick, sw.video.id, sw.alertLevel,
                 IF recentAlerts # {} THEN "suppressed" ELSE "pass", "",
                 sw.fiveMinutesAgo, TRUE)}
             \cup (IF next.pc = "send" THEN {} ELSE EndEvents(sw))
  /\ UNCHANGED <<http, now, videos, video_views, adding, ticks, requests>>

\* the suppressed emergency call followed by a call at level warning
CheckRecentFallsBack(s) ==
  /\ sweep[s].pc = "check"
  /\ LET sw == sweep[s]
         recentAlerts == RecentAlerts(notifications_log, sw.video.id,
                                      sw.alertLevel, sw.fiveMinutesAgo)
         next == IF recentAlerts = {} THEN StartChannel(sw, 1)
                 ELSE IF sw.alertLevel = "emergency"
                 THEN [sw EXCEPT !.alertLevel = "warning"]
                 ELSE NextVideo(sw)
     IN /\ sweep' = [sweep EXCEPT ![s] = next]
        /\ events' = events \cup
             {Ev("check", sw.tick, sw.video.id, sw.alertLevel,
                 IF recentAlerts # {} THEN "suppressed" ELSE "pass", "",
                 sw.fiveMinutesAgo, TRUE)}
             \cup (IF next.pc \in {"send", "check"} THEN {} ELSE EndEvents(sw))
  /\ UNCHANGED <<http, now, videos, video_views, notifications_log, adding, ticks,
                 requests>>

\* sendAlerts: the query for recent alerts of this video and level answers
CheckRecent(s) ==
  /\ sweep[s].pc = "check"
  /\ LET sw == sweep[s]
         recentAlerts == RecentAlerts(notifications_log, sw.video.id,
                                      sw.alertLevel, sw.fiveMinutesAgo)
         next == IF recentAlerts # {} THEN NextVideo(sw)
                 ELSE StartChannel(sw, 1)
     IN /\ sweep' = [sweep EXCEPT ![s] = next]
        /\ events' = events \cup
             {Ev("check", sw.tick, sw.video.id, sw.alertLevel,
                 IF recentAlerts # {} THEN "suppressed" ELSE "pass", "",
                 sw.fiveMinutesAgo, TRUE)}
             \cup (IF next.pc = "send" THEN {} ELSE EndEvents(sw))
  /\ UNCHANGED <<http, now, videos, video_views, notifications_log, adding, ticks,
                 requests>>

\* the failed query without the `return`: sendAlerts goes on to send
CheckFailsOpen(s) ==
  /\ sweep[s].pc = "check"
  /\ LET sw == sweep[s]
         next == StartChannel(sw, 1)
     IN /\ sweep' = [sweep EXCEPT ![s] = next]
        /\ events' = events \cup
             {Ev("check", sw.tick, sw.video.id, sw.alertLevel, "error", "",
                 sw.fiveMinutesAgo, FALSE)}
             \cup (IF next.pc = "send" THEN {} ELSE EndEvents(sw))
  /\ UNCHANGED <<http, now, videos, video_views, notifications_log, adding, ticks,
                 requests>>

\* sendAlerts: `if (error) { console.error(...); return; }`
CheckFails(s) ==
  /\ sweep[s].pc = "check"
  /\ sweep' = [sweep EXCEPT ![s] = NextVideo(sweep[s])]
  /\ events' = events \cup
       {Ev("check", sweep[s].tick, sweep[s].video.id, sweep[s].alertLevel,
           "error", "", sweep[s].fiveMinutesAgo, FALSE)}
       \cup EndEvents(sweep[s])
  /\ UNCHANGED <<http, now, videos, video_views, notifications_log, adding, ticks,
                 requests>>

\* the row with the status the test trigger writes, "delivered" whatever the
\* send returned
AlertRowDelivered(sw, to, success) ==
  [video_id |-> sw.video.id, type |-> sw.type, recipient |-> to,
   alert_level |-> sw.alertLevel, status |-> "delivered",
   timestamp |-> now, views_per_minute |-> sw.viewsPerMinute,
   threshold |-> ThresholdOf(sw.video, sw.alertLevel),
   test |-> FALSE, tick |-> sw.tick]

\* the row sendAlerts inserts after a send
AlertRow(sw, to, success) ==
  [video_id |-> sw.video.id, type |-> sw.type, recipient |-> to,
   alert_level |-> sw.alertLevel,
   status |-> IF success THEN "delivered" ELSE "failed",
   timestamp |-> now, views_per_minute |-> sw.viewsPerMinute,
   threshold |-> ThresholdOf(sw.video, sw.alertLevel),
   test |-> FALSE, tick |-> sw.tick]

\* the turn of the loop when a failed send ends sendAlerts
SendAndLogAbort(s, success) ==
  /\ sweep[s].pc = "send"
  /\ success \in SendOutcomes(sweep[s].type)
  /\ LET sw == sweep[s]
         list == Recipients(sw.video.notifications, sw.type)
         next == IF ~success THEN NextVideo(sw)
                 ELSE IF sw.i < Len(list) THEN [sw EXCEPT !.i = sw.i + 1]
                 ELSE StartChannel(sw, ChannelIndex(sw.type) + 1)
     IN /\ notifications_log' = Append(notifications_log,
                                       AlertRow(sw, list[sw.i], success))
        /\ sweep' = [sweep EXCEPT ![s] = next]
        /\ events' = events \cup
             {Ev("send", sw.tick, sw.video.id, sw.alertLevel, sw.type,
                 list[sw.i], sw.viewsPerMinute, success)}
             \cup (IF next.pc = "send" THEN {} ELSE EndEvents(sw))
  /\ UNCHANGED <<http, now, videos, video_views, adding, ticks, requests>>

\* one turn of a `for (const x of notifications.xs)` loop of sendAlerts:
\* send{Email,Zalo,Sms}Notification to the current recipient, then the insert
\* into notifications_log; then on to the next recipient, the next channel or
\* the next video.  The send touches nothing of the store, so it is one step
\* with the insert.  The result of the insert is not looked at either; the
\* store takes the row unless the video has been deleted meanwhile.
SendAndLog(s, success) ==
  /\ sweep[s].pc = "send"
  /\ success \in SendOutcomes(sweep[s].type)
  /\ LET sw == sweep[s]
         list == Recipients(sw.video.notifications, sw.type)
         next == IF sw.i < Len(list) THEN [sw EXCEPT !.i = sw.i + 1]
                 ELSE StartChannel(sw, ChannelIndex(sw.type) + 1)
     IN /\ notifications_log' =
             IF References(videos, sw.video.id)
             THEN Append(notifications_log, AlertRow(sw, list[sw.i], success))
             ELSE notifications_log
        /\ sweep' = [sweep EXCEPT ![s] = next]
        /\ events' = events \cup
             {Ev("send", sw.tick, sw.video.id, sw.alertLevel, sw.type,
                 list[sw.i], sw.viewsPerMinute, success)}
             \cup (IF next.pc = "send" THEN {} ELSE EndEvents(sw))
  /\ UNCHANGED <<http, now, videos, video_views, adding, ticks, requests>>

\* ------------------------------------------------------- specification
\* everything but the cron firing
Steps ==
  \/ AdvanceClock
  \/ \E id \in VideoIds, user \in Owners, body \in Bodies :
       AddVideo(id, user, body)
  \/ \E id \in VideoIds, viewCount \in 0..MaxViews : AddVideoSample(id, viewCount)
  \/ \E id \in VideoIds : AddVideoFetchFails(id)
  \/ \E id \in VideoIds, user \in Users, status \in Statuses :
       SetStatus(id, user, status)
  \/ \E s \in Sweeps : ListActive(s)
  \/ \E s \in Sweeps : ListFails(s)
  \/ \E s \in Sweeps, viewCount \in 0..MaxViews : FetchAndReadPrev(s, viewCount)
  \/ \E s \in Sweeps, reason \in {"unreachable", "not_found"} :
       FetchFails(s, reason)
  \/ \E s \in Sweeps : ReadPrevFails(s)
  \/ \E s \in Sweeps, stored \in BOOLEAN : InsertView(s, stored)
  \/ \E s \in Sweeps : CheckRecent(s)
  \/ \E s \in Sweeps : CheckFails(s)
  \/ \E s \in Sweeps, success \in BOOLEAN : SendAndLog(s, success)

Next == Steps \/ \E s \in Sweeps : TickStart(s)

Spec == Init /\ [][Next]_vars

\* the same system when no sweep overruns its minute: a firing finds every
\* earlier invocation finished
TickStartIdle(s) ==
  /\ \A r \in Sweeps : sweep[r].pc = "idle"
  /\ TickStart(s)

NextSeq == Steps \/ \E s \in Sweeps : TickStartIdle(s)

SpecSeq == Init /\ [][NextSeq]_vars

\* ------------------------------------------ POST /api/notifications/test
\* threshold: 100 of the row the test trigger writes
TestThreshold == 100

\* the type of the request body: the channel whose send can fail, and a type
\* that is none of the channels
TestTypes == {"email", "fax"}

\* the recipients of the request body
TestRecipients == {<<"a", "b">>}

\* the request passes `!type || !recipients || recipients.length === 0`; the
\* select of the caller's video is awaited and its result is not looked at
\* (the check is commented out).  The history gets one entry per listed
\* recipient: who asked (level), and whether the video row exists (ok).
TestStart(user, type, recipients, id) ==
  /\ requests + ticks < MaxOps
  /\ Cardinality(testing) < MaxTests
  /\ recipients # <<>>
  /\ requests' = requests + 1
  /\ testing' = testing \cup
       {[call |-> requests + 1, user |-> user, type |-> type,
         recipients |-> recipients, id |-> id, i |-> 1]}
  /\ events' = events \cup
       {Ev("test_to", 0, id, user, type, recipients[k], requests + 1,
           id \in DOMAIN videos) : k \in 1..Len(recipients)}
  /\ UNCHANGED <<now, videos, video_views, notifications_log, adding, ticks,
                 sweep, deleting, response>>

\* the row the test trigger inserts: level "warning", status "delivered" and
\* threshold 100 whatever happened; the ghost field tick holds minus the
\* number of the request, and test stands for the "Test ..." message
TestRow(t, to) ==
  [video_id |-> t.id, type |-> t.type, recipient |-> to,
   alert_level |-> "warning", status |-> "delivered", timestamp |-> now,
   views_per_minute |-> 0, threshold |-> TestThreshold, test |-> TRUE,
   tick |-> 0 - t.call]

\* the turn of the loop with the check for recent alerts that sendAlerts makes
TestSendAndLogDeduped(t, success) ==
  /\ t \in testing
  /\ t.type \in SeqToSet(Channels)
  /\ success \in SendOutcomes(t.type)
  /\ LET last == t.i = Len(t.recipients)
         recent == RecentAlerts(notifications_log, t.id, "warning",
                                now - CooldownMinutes) # {}
     IN /\ notifications_log' =
             IF References(videos, t.id) /\ ~recent
             THEN Append(notifications_log, TestRow(t, t.recipients[t.i]))
             ELSE notifications_log
        /\ testing' = IF last THEN testing \ {t}
                      ELSE (testing \ {t}) \cup {[t EXCEPT !.i = t.i + 1]}
        /\ events' = events \cup
             (IF recent THEN {}
              ELSE {Ev("test_send", 0, t.id, t.user, t.type,
                       t.recipients[t.i], t.call, success)})
             \cup (IF last
                   THEN {Ev("test_end", 0, t.id, t.user, t.type, "", t.call,
                            TRUE)}
                   ELSE {})
  /\ UNCHANGED <<now, videos, video_views, adding, ticks, requests, sweep,
                 deleting, response>>

\* one turn of `for (const recipient of recipients)`: the send of the type,
\* whose result is dropped, then the insert into notifications_log, whose
\* result is dropped too: the store rejects the row when no video has the id
\* (video_id REFERENCES videos(id)).  After the last recipient: 200.
TestSendAndLog(t, success) ==
  /\ t \in testing
  /\ t.type \in SeqToSet(Channels)
  /\ success \in SendOutcomes(t.type)
  /\ LET last == t.i = Len(t.recipients)
     IN /\ notifications_log' =
             IF References(videos, t.id)
             THEN Append(notifications_log, TestRow(t, t.recipients[t.i]))
             ELSE notifications_log
        /\ testing' = IF last THEN testing \ {t}
                      ELSE (testing \ {t}) \cup {[t EXCEPT !.i = t.i + 1]}
        /\ events' = events \cup
             {Ev("test_send", 0, t.id, t.user, t.type, t.recipients[t.i],
                 t.call, success)}
             \cup (IF last
                   THEN {Ev("test_end", 0, t.id, t.user, t.type, "", t.call,
                            TRUE)}
                   ELSE {})
  /\ UNCHANGED <<now, videos, video_views, adding, ticks, requests, sweep,
                 deleting, response>>

\* `default: throw new Error("Invalid notification type")` at the first
\* recipient: 500, nothing sent, nothing written
TestInvalidType(t) ==
  /\ t \in testing
  /\ t.type \notin SeqToSet(Channels)
  /\ testing' = testing \ {t}
  /\ events' = events \cup
       {Ev("test_end", 0, t.id, t.user, t.type, "", t.call, FALSE)}
  /\ UNCHANGED <<now, videos, video_views, notifications_log, adding, ticks,
                 requests, sweep, deleting, response>>

\* the server with the test trigger, when no sweep overruns its minute
NextTest ==
  \/ NextSeq
  \/ \E user \in Users, type \in TestTypes, recipients \in TestRecipients,
        id \in VideoIds : TestStart(user, type, recipients, id)
  \/ \E t \in testing, success \in BOOLEAN : TestSendAndLog(t, success)
  \/ \E t \in testing : TestInvalidType(t)

SpecTest == Init /\ [][NextTest]_vars

\* ------------------------------------------------ DELETE /api/videos/:id
\* a table without the rows of one video
WithoutVideo(table, id) == SelectSeq(table, LAMBDA row : row.video_id # id)

\* the number of samples of a video
NumViews(id) == Len(SelectSeq(video_views, LAMBDA row : row.video_id = id))

\* the select of the caller's video finds it (otherwise: 404); the history
\* notes how many samples the video has when the request arrives
DeleteStart(id, user) ==
  /\ requests + ticks < MaxOps
  /\ id \in DOMAIN videos
  /\ videos[id].user_id = user
  /\ id \notin DOMAIN deleting
  /\ requests' = requests + 1
  /\ deleting' = deleting @@ (id :> [pc |-> "views", call |-> requests + 1])
  /\ events' = events \cup
       {Ev("delete_start", 0 - (requests + 1), id, user, "", "", NumViews(id),
           TRUE)}
  /\ UNCHANGED <<now, videos, video_views, notifications_log, adding, ticks,
                 sweep, testing, response>>

\* await supabase.from("video_views").delete().eq("video_id", id): the
\* result is not looked at, whether the rows are gone (done) or not
DeleteViews(id, done) ==
  /\ id \in DOMAIN deleting
  /\ deleting[id].pc = "views"
  /\ deleting' = [deleting EXCEPT ![id].pc = "row"]
  /\ video_views' = IF done THEN WithoutVideo(video_views, id) ELSE video_views
  /\ UNCHANGED <<now, videos, notifications_log, adding, ticks, requests,
                 sweep, events, testing, response>>

\* the delete of the videos row succeeds: ON DELETE CASCADE removes the rows
\* of the video from video_views and from notifications_log; 204
DeleteVideoRow(id) ==
  /\ id \in DOMAIN deleting
  /\ deleting[id].pc = "row"
  /\ deleting' = [x \in DOMAIN deleting \ {id} |-> deleting[x]]
  /\ videos' = [x \in DOMAIN videos \ {id} |-> videos[x]]
  /\ video_views' = WithoutVideo(video_views, id)
  /\ notifications_log' = WithoutVideo(notifications_log, id)
  /\ events' = events \cup
       {Ev("delete_end", 0 - deleting[id].call, id, "", "", "", 0, TRUE)}
  /\ UNCHANGED <<now, adding, ticks, requests, sweep, testing, response>>

\* the delete of the videos row returns an error: `if (error) throw error`,
\* 500; what the first delete removed stays removed
DeleteVideoRowFails(id) ==
  /\ id \in DOMAIN deleting
  /\ deleting[id].pc = "row"
  /\ deleting' = [x \in DOMAIN deleting \ {id} |-> deleting[x]]
  /\ events' = events \cup
       {Ev("delete_end", 0 - deleting[id].call, id, "", "", "", 0, FALSE)}
  /\ UNCHANGED <<now, videos, video_views, notifications_log, adding, ticks,
                 requests, sweep, testing, response>>

\* the server with item deletion, when no sweep overruns its minute
NextDelete ==
  \/ NextSeq
  \/ \E id \in VideoIds, user \in Users : DeleteStart(id, user)
  \/ \E id \in VideoIds, done \in BOOLEAN : DeleteViews(id, done)
  \/ \E id \in VideoIds : DeleteVideoRow(id)
  \/ \E id \in VideoIds : DeleteVideoRowFails(id)

SpecDelete == Init /\ [][NextDelete]_vars

\* ----------------------------------------------------------- queries
\* GET /api/videos: the entry of one video of the list
ListStats(id) ==
  LET video == videos[id]
      viewsData == LatestViews(video_views, id, 2)
      viewsPerMinute == IF Len(viewsData) >= 2
                        THEN viewsData[1].views - viewsData[2].views
                        ELSE 0
  IN [alertLevel |-> AlertLevel(viewsPerMinute, video),
      currentViews |-> IF Len(viewsData) >= 1 THEN viewsData[1].views ELSE 0,
      viewsPerMinute |-> viewsPerMinute]

\* GET /api/videos/:id: the current figures of the answer
DetailStats(id) ==
  LET video == videos[id]
      viewsData == LatestViews(video_views, id, 60)
      viewsPerMinute == viewsData[1].views - viewsData[2].views
  IN IF Len(viewsData) >= 2
     THEN [alertLevel |-> AlertLevel(viewsPerMinute, video),
           currentViews |-> viewsData[1].views,
           viewsPerMinute |-> viewsPerMinute]
     ELSE [alertLevel |-> "normal", currentViews |-> 0, viewsPerMinute |-> 0]

\* --------------------------------------------- GET /api/videos/:id
\* the select of LatestViews as positions in the table, newest first; the
\* position of a row stands for its timestamp
RECURSIVE LatestPositions(_, _, _)
LatestPositions(table, id, n) ==
  IF n = 0 \/ table = <<>> THEN <<>>
  ELSE LET rest == SubSeq(table, 1, Len(table) - 1)
       IN IF table[Len(table)].video_id = id
          THEN <<Len(table)>> \o LatestPositions(rest, id, n - 1)
          ELSE LatestPositions(rest, id, n)

\* the array left as it was built
Unreversed(q) == q

\* Array.prototype.reverse
Reverse(q) == [k \in 1..Len(q) |-> q[Len(q) + 1 - k]]

\* viewHistory: one entry per retrieved row but the last with the difference
\* to the row after it (the next older one), then the oldest retrieved row
\* with 0, and the whole reversed for the answer
ViewHistory(table, id) ==
  LET viewsData == LatestPositions(table, id, HistoryLimit)
      n == Len(viewsData)
      entry(i) ==
        [timestamp |-> viewsData[i],
         views |-> table[viewsData[i]].views,
         viewsPerMinute |->
           table[viewsData[i]].views - table[viewsData[i + 1]].views]
      viewHistory == [i \in 1..(n - 1) |-> entry(i)]
      oldest == IF n > 0
                THEN <<[timestamp |-> viewsData[n],
                        views |-> table[viewsData[n]].views,
                        viewsPerMinute |-> 0]>>
                ELSE <<>>
  IN Reverse(viewHistory \o oldest)

\* the video is stored and owned by the caller, both selects answer
GetVideo(id, user) ==
  /\ id \in DOMAIN videos
  /\ videos[id].user_id = user
  /\ response' = [status |-> 200, id |-> id,
                   viewHistory |-> ViewHistory(video_views, id)]
  /\ UNCHANGED <<now, videos, video_views, notifications_log, adding, ticks,
                 requests, sweep, events, deleting, testing>>

\* .single() finds no row of this id and user: `if (videoError) throw`, 500
GetVideoNotFound(id, user) ==
  /\ ~(id \in DOMAIN videos /\ videos[id].user_id = user)
  /\ response' = [status |-> 500, id |-> id, viewHistory |-> <<>>]
  /\ UNCHANGED <<now, videos, video_views, notifications_log, adding, ticks,
                 requests, sweep, events, deleting, testing>>

\* the select of the samples fails: `if (viewsError) throw viewsError`, 500
GetVideoViewsFail(id, user) ==
  /\ id \in DOMAIN videos
  /\ videos[id].user_id = user
  /\ response' = [status |-> 500, id |-> id, viewHistory |-> <<>>]
  /\ UNCHANGED <<now, videos, video_views, notifications_log, adding, ticks,
                 requests, sweep, events, deleting, testing>>

\* the view counts of the tables the query is run on: growing, going up and
\* down, and alternating
ViewPatterns == {"growing", "uneven", "alternating"}

PatternViews(p, k) ==
  CASE p = "growing" -> k
    [] p = "uneven" -> (k * k) % 7
    [] OTHER -> 2 * (k % 2)

\* the positions of the rows that belong to the second video
OtherRows == {{}, {2}, {2, MaxSamples - 3}}

\* a store after some time of tracking: two videos of one owner and a table
\* of up to MaxSamples samples, the k-th written by the k-th tick.  The
\* history of how the table was filled is not recorded.
InitHistory ==
  /\ now = 0
  /\ \E body \in Bodies :
       videos = [id \in VideoIds |->
                   [id |-> id, status |-> "active",
                    warning_threshold |-> body.warningThreshold,
                    emergency_threshold |-> body.emergencyThreshold,
                    notifications |-> body.notifications, user_id |-> "u1"]]
  /\ \E n \in 0..MaxSamples, p \in ViewPatterns, others \in OtherRows :
       /\ video_views =
            [k \in 1..n |->
               [video_id |-> IF k \in others THEN "v2" ELSE "v1",
                views |-> PatternViews(p, k), tick |-> k]]
       /\ ticks = n
  /\ notifications_log = <<>>
  /\ adding = {}
  /\ requests = Cardinality(VideoIds)
  /\ sweep = [s \in Sweeps |-> IdleSweep]
  /\ events = {}
  /\ deleting = <<>>
  /\ testing = {}
  /\ response = NoResponse

NextHistory ==
  \/ \E id \in VideoIds, user \in Users : GetVideo(id, user)
  \/ \E id \in VideoIds, user \in Users : GetVideoNotFound(id, user)
  \/ \E id \in VideoIds, user \in Users : GetVideoViewsFail(id, user)

SpecHistory == InitHistory /\ [][NextHistory]_vars

\* ------------------------------------- the job running minute after minute
\* The server runs for ever and its tables grow without bound; the job reads
\* of them the last sample of a video and the log rows of the last five
\* minutes, and compares times and view counts by their differences only.
\* SpecLive therefore keeps time and views relative: when a minute passes,
\* `now` stays, every stored timestamp becomes one minute older, the rows no
\* query can match again are dropped, and of the samples the last one of each
\* video remains, counted as 0 views.  The history is not recorded beyond
\* the running minute.

\* the log one minute later
OneMinuteOlder(log) ==
  LET aged == [k \in 1..Len(log) |->
                 [log[k] EXCEPT !.timestamp = log[k].timestamp - 1]]
  IN SelectSeq(aged, LAMBDA row : row.timestamp >= now - CooldownMinutes)

\* the last sample of a video, its views taken as the new origin
LastSample(table, id) ==
  LET last == LatestViews(table, id, 1)
  IN IF last = <<>> THEN <<>> ELSE <<[last[1] EXCEPT !.views = 0, !.tick = 0]>>

\* cron "* * * * *": a minute passes and the callback is fired; the sweep of
\* the minute before has ended
LiveMinute(s) ==
  /\ \A r \in Sweeps : sweep[r].pc = "idle"
  /\ s = 1
  /\ notifications_log' = OneMinuteOlder(notifications_log)
  /\ video_views' = LastSample(video_views, "v1") \o LastSample(video_views, "v2")
  /\ sweep' = [sweep EXCEPT ![s] = [IdleSweep EXCEPT !.pc = "list",
                                                    !.tick = s]]
  /\ events' = {}
  /\ UNCHANGED <<http, now, videos, adding, ticks, requests>>

\* the fetch answers with a count that puts the rate at or above the
\* emergency threshold of the video
FetchHighRate(s) ==
  \E viewCount \in 0..MaxViews :
    /\ FetchAndReadPrev(s, viewCount)
    /\ sweep'[s].prevViewsData # <<>>
    /\ viewCount - sweep'[s].prevViewsData[1].views
         >= sweep[s].video.emergency_threshold

\* one active video with its first sample, as POST /api/videos leaves it
InitLive ==
  /\ now = 0
  /\ \E body \in Bodies :
       videos = ("v1" :> [id |-> "v1", status |-> "active",
                          warning_threshold |-> body.warningThreshold,
                          emergency_threshold |-> body.emergencyThreshold,
                          notifications |-> body.notifications,
                          user_id |-> "u1"])
  /\ video_views = <<[video_id |-> "v1", views |-> 0, tick |-> 0]>>
  /\ notifications_log = <<>>
  /\ adding = {}
  /\ ticks = 0
  /\ requests = 1
  /\ sweep = [s \in Sweeps |-> IdleSweep]
  /\ events = {}
  /\ deleting = <<>>
  /\ testing = {}
  /\ response = NoResponse

\* the job with no failure of the fetch or of the store; only sends fail
NextLive ==
  \/ \E s \in Sweeps : LiveMinute(s)
  \/ \E s \in Sweeps : ListActive(s)
  \/ \E s \in Sweeps : FetchHighRate(s)
  \/ \E s \in Sweeps : InsertView(s, TRUE)
  \/ \E s \in Sweeps : CheckRecent(s)
  \/ \E s \in Sweeps, success \in BOOLEAN : SendAndLog(s, success)

\* the process keeps running: the minute passes, an awaited call returns
SpecLive == InitLive /\ [][NextLive]_vars /\ WF_vars(NextLive)

\* ------------------------------------------- vocabulary of the properties
Checks == {e \in events : e.ev = "check"}
Sends == {e \in events : e.ev = "send"}
Classified == {e \in events : e.ev = "classify"}
Samples == {e \in events : e.ev = "sample"}
Ended == {e \in events : e.ev = "end"}

\* the time at which sendAlerts was called for a check
CalledAt(c) == c.val + CooldownMinutes

\* the rows a tick wrote for a video, and the sends it made for it
RowsOf(tick, id) ==
  {k \in 1..Len(notifications_log) :
      /\ notifications_log[k].tick = tick
      /\ notifications_log[k].video_id = id}

SendsOf(tick, id) == {e \in Sends : e.tick = tick /\ e.video_id = id}

SamplesOf(tick, id) ==
  {k \in 1..Len(video_views) :
      video_views[k].tick = tick /\ video_views[k].video_id = id}

\* the configured recipients of a video, as <<channel, recipient>> pairs
Configured(id) ==
  UNION { {<<Channels[c], to>> :
             to \in SeqToSet(Recipients(videos[id].notifications, Channels[c]))}
          : c \in 1..Len(Channels) }

ValidThresholds(video) ==
  video.emergency_threshold > video.warning_threshold
  /\ video.warning_threshold > 0

\* the number of configured recipients, summed over the three channels
NumRecipients(notifications) ==
  Len(notifications.emails) + Len(notifications.zaloIds)
    + Len(notifications.phoneNumbers)

\* what a tick recorded about one video
EventsOf(tick, id) == {e \in events : e.tick = tick /\ e.video_id = id}

\* the videos a tick listed as active
Listed(tick) == {e.video_id : e \in {x \in events : x.ev = "list" /\ x.tick = tick}}

\* the videos whose run a tick has finished
EndedIn(tick) == {e.video_id : e \in {x \in Ended : x.tick = tick}}

\* the videos the invocation of a tick still holds: the current one and the
\* rest of its list
Pending(tick) ==
  UNION {{sweep[s].video.id} \cup {sweep[s].todo[k].id : k \in 1..Len(sweep[s].todo)}
         : s \in {r \in Sweeps : sweep[r].tick = tick /\ sweep[r].pc # "list"}}

\* the failures that end the run of one video through the per-video catch
\* (or `continue`): the fetch, and the select of the previous sample
RunFailures == {e \in events : e.ev \in {"fetch", "prev"} /\ ~e.ok}

C2_KeyedByItemAndTier ==
  \A c \in Checks :
    c.type = "suppressed" =>
      \E k \in 1..Len(notifications_log) :
        /\ notifications_log[k].video_id = c.video_id
        /\ notifications_log[k].alert_level = c.level
        /\ notifications_log[k].timestamp > c.val

\* a call that passed although a row of the same video and the other level
\* lies inside its window
C2_Witness ==
  \E c \in Checks :
    /\ c.type = "pass"
    /\ \E k \in 1..Len(notifications_log) :
         /\ notifications_log[k].video_id = c.video_id
         /\ notifications_log[k].alert_level # c.level
         /\ notifications_log[k].tick < c.tick
         /\ notifications_log[k].timestamp > c.val

\* ----------------------------------------------------------------- C3
\* the tier the claim prescribes for a rate and two thresholds
Tier(r, warning, emergency) ==
  CASE r >= emergency -> "emergency"
    [] r >= warning /\ r < emergency -> "warning"
    [] r < warning -> "normal"

\* C3: for a video with emergency > warning > 0, the level the scheduled job
\* classifies a rate as, and the level the list and the detail query report
\* once two samples exist, is emergency from the emergency threshold on,
\* warning from the warning threshold up to it, and normal below.
C3_Classification ==
  /\ \A e \in Classified :
       ValidThresholds(videos[e.video_id]) =>
         e.level = Tier(e.val, videos[e.video_id].warning_threshold,
                        videos[e.video_id].emergency_threshold)
  /\ \A c \in Checks :
       /\ c.level \in {"warning", "emergency"}
       /\ \E e \in Classified :
            e.tick = c.tick /\ e.video_id = c.video_id /\ e.level = c.level
  /\ \A id \in DOMAIN videos :
       (ValidThresholds(videos[id]) /\ Len(LatestViews(video_views, id, 2)) = 2)
       => /\ ListStats(id).alertLevel =
               Tier(ListStats(id).viewsPerMinute, videos[id].warning_threshold,
                    videos[id].emergency_threshold)
          /\ DetailStats(id).alertLevel =
               Tier(DetailStats(id).viewsPerMinute,
                    videos[id].warning_threshold,
                    videos[id].emergency_threshold)

\* a rate exactly at the warning threshold was classified warning, and the
\* list query reports a rate exactly at the emergency threshold
C3_Witness ==
  /\ \E e \in Classified :
       /\ ValidThresholds(videos[e.video_id])
       /\ e.val = videos[e.video_id].warning_threshold
       /\ e.level = "warning"
  /\ \E id \in DOMAIN videos :
       /\ ValidThresholds(videos[id])
       /\ Len(LatestViews(video_views, id, 2)) = 2
       /\ ListStats(id).viewsPerMinute = videos[id].emergency_threshold

\* ----------------------------------------------------------------- C4
\* C4 (as stated): a video with fewer than two samples is reported by the list
\* query with rate 0 and level normal, and a tick that finds no previous
\* sample of a video classifies nothing, queries nothing, sends nothing and
\* writes no row for it.
C4_FewerThanTwoSamples ==
  /\ \A id \in DOMAIN videos :
       Len(LatestViews(video_views, id, 2)) < 2 =>
         /\ ListStats(id).viewsPerMinute = 0
         /\ ListStats(id).alertLevel = "normal"
  /\ \A e \in Samples :
       ~e.ok => /\ \A x \in EventsOf(e.tick, e.video_id) :
                     x.ev \notin {"classify", "check", "send"}
                /\ RowsOf(e.tick, e.video_id) = {}

\* ----------------------------------------------------------------- C5
\* C5 (as stated): a rate below zero is classified normal, whatever the
\* thresholds of the video are, and sendAlerts is not called for it.
C5_DecreaseIsNormal ==
  \A e \in Classified :
    e.val < 0 => /\ e.level = "normal"
                 /\ \A x \in EventsOf(e.tick, e.video_id) :
                      x.ev \notin {"check", "send"}
                 /\ RowsOf(e.tick, e.video_id) = {}

\* ----------------------------------------------------------------- C6
\* C6: when the query for recent alerts fails, the tick sends nothing and
\* writes no row for that video, the run of the video ends there, and every
\* other video the tick listed has had its run or is still held by the sweep.
C6_FailClosed ==
  \A c \in Checks :
    c.type = "error" =>
      /\ SendsOf(c.tick, c.video_id) = {}
      /\ RowsOf(c.tick, c.video_id) = {}
      /\ c.video_id \in EndedIn(c.tick)
      /\ Listed(c.tick) = EndedIn(c.tick) \cup Pending(c.tick)

\* the query failed for a video that was not the last of its tick, and the
\* tick went on to store a sample of another video
C6_Witness ==
  \E c \in Checks, e \in Ended, x \in Samples :
    /\ c.type = "error"
    /\ e.tick = c.tick /\ e.video_id = c.video_id /\ e.val >= 1
    /\ x.tick = c.tick /\ x.video_id # c.video_id
    /\ x.video_id \in EndedIn(c.tick)
    /\ SamplesOf(c.tick, x.video_id) # {}

C8_SendFailuresIsolated ==
  \A e \in Sends :
    ~e.ok =>
      \/ \E s \in Sweeps : /\ sweep[s].tick = e.tick
                           /\ sweep[s].video.id = e.video_id
                           /\ sweep[s].pc = "send"
      \/ /\ e.video_id \in EndedIn(e.tick)
         /\ \A p \in Configured(e.video_id) :
              \E x \in SendsOf(e.tick, e.video_id) :
                x.type = p[1] /\ x.recipient = p[2]

\* the send to the first recipient failed, and the dispatch went on to the
\* second recipient of the channel and to the next channel
C8_Witness ==
  \E e, x, y \in Sends :
    /\ ~e.ok /\ e.type = "email" /\ e.recipient = "a"
    /\ x.tick = e.tick /\ x.video_id = e.video_id
    /\ x.type = "email" /\ x.recipient = "b"
    /\ y.tick = e.tick /\ y.video_id = e.video_id /\ y.type = "zalo"
    /\ e.video_id \in EndedIn(e.tick)

\* ----------------------------------------------------------------- C9
\* the record of a finished run of one video is that of a whole run: either
\* it failed at the fetch or at the previous sample and did nothing else, or
\* it has its sample event, and with a previous sample the level of its rate,
\* and for a level other than normal the check, and after a passed check a
\* send to every configured recipient
RunComplete(tick, id) ==
  LET evs == EventsOf(tick, id)
      of(kind) == {e \in evs : e.ev = kind}
  IN IF of("fetch") \cup of("prev") # {}
     THEN of("sample") \cup of("classify") \cup of("check") \cup of("send") = {}
     ELSE /\ Cardinality(of("sample")) = 1
          /\ \A x \in of("sample") :
               IF ~x.ok
               THEN of("classify") \cup of("check") \cup of("send") = {}
               ELSE /\ Cardinality(of("classify")) = 1
                    /\ \A y \in of("classify") :
                         /\ y.level = AlertLevel(y.val, videos[id])
                         /\ IF y.level = "normal"
                            THEN of("check") \cup of("send") = {}
                            ELSE /\ Cardinality(of("check")) = 1
                                 /\ \A c \in of("check") :
                                      /\ c.level = y.level
                                      /\ IF c.type = "pass"
                                         THEN {<<z.type, z.recipient>> : z \in of("send")}
                                                = Configured(id)
                                         ELSE of("send") = {}

\* C9: when the fetch or the previous-sample query of a video fails in a
\* tick, every other video the tick listed is still held by the sweep or has
\* had a whole run of its own.
C9_FailureIsolation ==
  \A f \in RunFailures :
    /\ f.video_id \in EndedIn(f.tick)
    /\ \A id \in Listed(f.tick) \ {f.video_id} :
         \/ id \in Pending(f.tick)
         \/ id \in EndedIn(f.tick) /\ RunComplete(f.tick, id)

\* the fetch of the first video of a tick failed and the next video of the
\* tick was sampled, classified and dispatched
C9_Witness ==
  \E f \in RunFailures, e \in Ended, c \in Checks :
    /\ f.ev = "fetch"
    /\ e.tick = f.tick /\ e.video_id = f.video_id /\ e.val >= 1
    /\ c.tick = f.tick /\ c.video_id # f.video_id /\ c.type = "pass"
    /\ c.video_id \in EndedIn(f.tick)
    /\ SendsOf(f.tick, c.video_id) # {}
    /\ SamplesOf(f.tick, c.video_id) # {}

\* ---------------------------------------------------------------- C10
\* what a tick leaves for a video it did not list: nothing
Untouched(tick, id) ==
  /\ SamplesOf(tick, id) = {}
  /\ RowsOf(tick, id) = {}
  /\ \A e \in EventsOf(tick, id) : e.ev = "skip"

\* a tick lists exactly the videos that are active when it lists, runs each
\* of them once and touches no other video
ListsTheActive ==
  /\ \A e \in events :
       /\ e.ev = "list" => e.level = "active"
       /\ e.ev = "skip" => e.level # "active" /\ Untouched(e.tick, e.video_id)
  /\ \A e \in events :
       e.ev \in {"sample", "classify", "check", "send", "fetch", "prev", "end"}
         => e.video_id \in Listed(e.tick)
  /\ \A e1, e2 \in Ended :
       (e1.tick = e2.tick /\ e1.video_id = e2.video_id) => e1 = e2

\* C10 (as stated): a tick lists exactly the active videos, and every listed
\* video whose run has ended and whose fetch succeeded has exactly one sample
\* of that tick.
C10_FetchedThenSampled ==
  /\ ListsTheActive
  /\ \A e \in Ended :
       {f \in EventsOf(e.tick, e.video_id) : f.ev = "fetch"} = {} =>
         Cardinality(SamplesOf(e.tick, e.video_id)) = 1

\* C10 (amended): a tick lists exactly the active videos; a listed video
\* never has more than one sample of the tick, and once its run has ended it
\* has one exactly when the fetch and the previous-sample query succeeded and
\* the store accepted the insert, and none otherwise.
C10_SampledOnce ==
  /\ ListsTheActive
  /\ \A e \in events :
       e.ev = "list" => Cardinality(SamplesOf(e.tick, e.video_id)) <= 1
  /\ \A e \in Ended :
       LET evs == EventsOf(e.tick, e.video_id)
           stored == /\ {f \in evs : f.ev \in {"fetch", "prev"}} = {}
                     /\ \E x \in evs : x.ev = "sample" /\ x.type = "stored"
       IN Cardinality(SamplesOf(e.tick, e.video_id)) = IF stored THEN 1 ELSE 0

\* a tick finished the run of an active video and stored its one sample,
\* and the video has two samples by now
C10_Witness ==
  \E e \in Ended :
    /\ \E l \in events : l.ev = "list" /\ l.tick = e.tick
                         /\ l.video_id = e.video_id /\ l.level = "active"
    /\ Cardinality(SamplesOf(e.tick, e.video_id)) = 1
    /\ Len(LatestViews(video_views, e.video_id, 2)) = 2

\* ---------------------------------------------------------------- C11
\* C11: the step in which a fetch fails writes nothing and leaves the video
\* as it is; the tick never has a sample, a row or any further event for
\* that video; and a later listing lists the video again when it is active.
C11_FetchFailureSkips ==
  [][ \A f \in events' :
        (f.ev = "fetch" /\ ~f.ok) =>
          /\ \A k \in 1..Len(video_views') :
               ~(video_views'[k].tick = f.tick
                 /\ video_views'[k].video_id = f.video_id)
          /\ \A k \in 1..Len(notifications_log') :
               ~(notifications_log'[k].tick = f.tick
                 /\ notifications_log'[k].video_id = f.video_id)
          /\ \A x \in events' :
               (x.tick = f.tick /\ x.video_id = f.video_id)
                 => x.ev \in {"list", "fetch", "end"}
          /\ f \notin events =>
               /\ videos' = videos
               /\ video_views' = video_views
               /\ notifications_log' = notifications_log
          /\ \A l \in events' \ events :
               (l.ev \in {"list", "skip"} /\ l.tick > f.tick
                /\ f.video_id \in DOMAIN videos
                /\ videos[f.video_id].status = "active")
                 => \E x \in events' \ events :
                      /\ x.ev = "list" /\ x.tick = l.tick
                      /\ x.video_id = f.video_id ]_vars

\* the fetch of a video failed in one tick, the video is still active and a
\* later tick fetched it again and stored its sample
C11_Witness ==
  \E f \in RunFailures, x \in Samples :
    /\ f.ev = "fetch"
    /\ SamplesOf(f.tick, f.video_id) = {}
    /\ x.video_id = f.video_id /\ x.tick > f.tick /\ x.type = "stored"
    /\ videos[f.video_id].status = "active"

\* ---------------------------------------------------------------- C12
\* C12 (as stated): when the store rejects the insert of the new sample, the
\* tick classifies no rate for that video, does not call sendAlerts for it
\* and writes no row for it.
C12_RejectedSampleSkipsClassification ==
  \A e \in Samples :
    e.type = "rejected" =>
      /\ \A x \in EventsOf(e.tick, e.video_id) :
           x.ev \notin {"classify", "check", "send"}
      /\ RowsOf(e.tick, e.video_id) = {}

\* ---------------------------------------------------------------- C13
\* the rows a test request wrote for one recipient
TestRowsOf(call, to) ==
  {k \in 1..Len(notifications_log) :
      /\ notifications_log[k].tick = 0 - call
      /\ notifications_log[k].recipient = to}

\* the test requests that have been answered
TestEnded == {e.val : e \in {x \in events : x.ev = "test_end"}}

C14_TestLogsOutcome ==
  \A x \in events :
    x.ev = "test_send" =>
      \A k \in TestRowsOf(x.val, x.recipient) :
        notifications_log[k].status = IF x.ok THEN "delivered" ELSE "failed"

\* ---------------------------------------------------------------- C15
\* C15 (as stated): no step removes or changes a row of notifications_log:
\* the log after a step starts with the log before it.
C15_LogAppendOnly ==
  [][ /\ Len(notifications_log') >= Len(notifications_log)
      /\ SubSeq(notifications_log', 1, Len(notifications_log))
           = notifications_log ]_vars

\* ---------------------------------------------------------------- C16
\* C16 (as stated): a video that is not stored has no sample, and a video
\* that has not been deleted since a delete request for it arrived, and has
\* no delete request in flight, still has the samples it had then.
C16_SamplesRemovedOnlyByDeletion ==
  /\ \A id \in VideoIds \ DOMAIN videos : NumViews(id) = 0
  /\ \A e \in events :
       ( /\ e.ev = "delete_start"
         /\ e.video_id \in DOMAIN videos
         /\ e.video_id \notin DOMAIN deleting
         /\ ~\E x \in events : /\ x.ev = "delete_end" /\ x.ok
                               /\ x.video_id = e.video_id )
       => NumViews(e.video_id) >= e.val

\* ---------------------------------------------------------------- C17
\* C17 (as stated): every stored video has an emergency threshold above its
\* warning threshold and a warning threshold above 0.
C17_StoredThresholdsValid ==
  \A id \in DOMAIN videos : ValidThresholds(videos[id])

\* ---------------------------------------------------------------- C18
\* C18: the suppression check and the inserts of a dispatch are separate
\* steps.  A check passes only when the log, as it is at that moment, holds
\* no row of the video and level inside the window; and every row a tick
\* appends for a video rests on the check that tick passed earlier, whatever
\* the log holds when the row is appended.  Two overlapping ticks can
\* therefore both pass and both write (C18_Witness).
C18_CheckAndInsertSeparate ==
  [][ /\ \A c \in Checks' \ Checks :
           c.type = "pass" =>
             ~\E k \in 1..Len(notifications_log) :
                 /\ notifications_log[k].video_id = c.video_id
                 /\ notifications_log[k].alert_level = c.level
                 /\ notifications_log[k].timestamp > c.val
      /\ \A k \in 1..Len(notifications_log') :
           ( /\ k > Len(notifications_log)
             /\ ~notifications_log'[k].test )
           => \E c \in Checks :
                /\ c.type = "pass"
                /\ c.tick = notifications_log'[k].tick
                /\ c.video_id = notifications_log'[k].video_id
                /\ c.level = notifications_log'[k].alert_level ]_vars

\* two ticks passed the check for the same video and level, and the log holds
\* a row of each for the same recipient and channel less than one cooldown
\* apart
C18_Witness ==
  \E c1, c2 \in Checks :
    /\ c1.tick < c2.tick
    /\ c1.video_id = c2.video_id /\ c1.level = c2.level
    /\ c1.type = "pass" /\ c2.type = "pass"
    /\ \E k1 \in RowsOf(c1.tick, c1.video_id),
          k2 \in RowsOf(c2.tick, c2.video_id) :
         LET r1 == notifications_log[k1]
             r2 == notifications_log[k2]
         IN /\ r1.alert_level = c1.level /\ r2.alert_level = c2.level
            /\ r1.type = r2.type /\ r1.recipient = r2.recipient
            /\ r1.timestamp - r2.timestamp < CooldownMinutes
            /\ r2.timestamp - r1.timestamp < CooldownMinutes

\* ---------------------------------------------------------------- C19
\* C19: a step of the scheduled job (a firing, or a step of a running sweep,
\* dispatch included) leaves the videos table as it is, and the level a
\* sweep classifies a rate at is the one computed from that rate and the two
\* thresholds of the stored row.
C19_PipelineReadsOnly ==
  [][ /\ (sweep' # sweep \/ ticks' # ticks) => videos' = videos
      /\ \A c \in Classified' \ Classified :
           /\ c.video_id \in DOMAIN videos
           /\ c.level = AlertLevel(c.val, videos[c.video_id]) ]_vars

\* a tick has dispatched for a video and finished, and the video is stored
\* active with a row that carries no level
C19_Witness ==
  \E e \in Ended :
    /\ SendsOf(e.tick, e.video_id) # {}
    /\ e.video_id \in DOMAIN videos
    /\ videos[e.video_id].status = "active"
    /\ DOMAIN videos[e.video_id] =
         {"id", "status", "warning_threshold", "emergency_threshold",
          "notifications", "user_id"}

\* ---------------------------------------------------------------- C20
\* the positions of the rows of a video, oldest first
PositionsOf(id) ==
  SelectSeq([k \in 1..Len(video_views) |-> k],
            LAMBDA k : video_views[k].video_id = id)

\* C20: the history of an answer has one entry per retrieved sample, the
\* HistoryLimit newest of the video at most, oldest first; an entry carries
\* the time and the views of its sample; its rate is its views minus the
\* views of the sample just before it in time, and 0 for the oldest
\* retrieved one.
C20_HistoryAscendingWithRates ==
  response.status = 200 =>
    LET all == PositionsOf(response.id)
        m == IF Len(all) > HistoryLimit THEN HistoryLimit ELSE Len(all)
        got == SubSeq(all, Len(all) - m + 1, Len(all))
        h == response.viewHistory
    IN /\ Len(h) = m
       /\ \A k \in 1..m :
            /\ h[k].timestamp = got[k]
            /\ h[k].views = video_views[got[k]].views
            /\ k > 1 => /\ h[k - 1].timestamp < h[k].timestamp
                        /\ h[k].viewsPerMinute =
                             video_views[got[k]].views
                               - video_views[got[k - 1]].views
            /\ k = 1 => h[k].viewsPerMinute = 0

\* an answer for a video with more than HistoryLimit samples, with a row of
\* the other video between the retrieved ones and a decrease among them
C20_Witness ==
  /\ response.status = 200
  /\ NumViews(response.id) > HistoryLimit
  /\ Len(response.viewHistory) = HistoryLimit
  /\ \E k \in 1..Len(response.viewHistory) :
       response.viewHistory[k].viewsPerMinute < 0
  /\ \E k \in 1..Len(video_views) :
       /\ video_views[k].video_id # response.id
       /\ k > response.viewHistory[1].timestamp

\* ---------------------------------------------------------------- C21
\* C21: a suppression query that answers suppresses exactly when the log, at
\* that moment, holds a row of the video and level with a timestamp strictly
\* later than five minutes before the call of sendAlerts, whatever the
\* channel, the recipient and the status of the row; a row exactly five
\* minutes old does not count.
C21_SuppressedIffRecentRow ==
  [][ \A c \in Checks' \ Checks :
        c.type # "error" =>
          ( c.type = "suppressed" <=>
              \E k \in 1..Len(notifications_log) :
                /\ notifications_log[k].video_id = c.video_id
                /\ notifications_log[k].alert_level = c.level
                /\ notifications_log[k].timestamp > CalledAt(c) - CooldownMinutes
          ) ]_vars

\* a call was suppressed while every row of the video and level in the log
\* had status failed
C21_Witness ==
  \E c \in Checks :
    /\ c.type = "suppressed"
    /\ \A k \in 1..Len(notifications_log) :
         ( /\ notifications_log[k].video_id = c.video_id
           /\ notifications_log[k].alert_level = c.level )
         => notifications_log[k].status = "failed"

\* ---------------------------------------------------------------- C22
\* the ticks whose listing failed
ListErrors == {e \in events : e.ev = "list_error"}

\* C22: a tick whose listing failed has written no sample and no row and has
\* run no video; and of every tick, each listed video has had its run or is
\* still held by the sweep, so that a sweep at its end has attempted every
\* video it listed.
C22_SchedulerFailureContained ==
  /\ \A e \in ListErrors :
       /\ \A k \in 1..Len(video_views) : video_views[k].tick # e.tick
       /\ \A k \in 1..Len(notifications_log) :
            notifications_log[k].tick # e.tick
       /\ \A x \in events :
            x.tick = e.tick => x.ev \in {"tick", "list_error"}
       /\ \A s \in Sweeps : sweep[s].tick # e.tick
  /\ \A t \in events :
       t.ev = "tick" =>
         /\ Listed(t.tick) = EndedIn(t.tick) \cup Pending(t.tick)
         /\ (\E x \in events : x.ev = "sweep_end" /\ x.tick = t.tick)
              => EndedIn(t.tick) = Listed(t.tick)

\* the listing of a tick failed, and a later tick listed a video, stored its
\* sample and ran its sweep to the end
C22_Witness ==
  \E e \in ListErrors, x \in events :
    /\ x.ev = "sweep_end" /\ x.tick > e.tick
    /\ Listed(x.tick) # {}
    /\ \E k \in 1..Len(video_views) : video_views[k].tick = x.tick

\* ---------------------------------------------------------------- C23
\* C23 (as stated): the rows of test sends have no part in the suppression
\* of real alerts: whenever a call of sendAlerts is suppressed, the log holds
\* a row written by a tick, of the video and level, inside the window.
C23_TestsDoNotSuppress ==
  [][ \A c \in Checks' \ Checks :
        c.type = "suppressed" =>
          \E k \in 1..Len(notifications_log) :
            /\ ~notifications_log[k].test
            /\ notifications_log[k].video_id = c.video_id
            /\ notifications_log[k].alert_level = c.level
            /\ notifications_log[k].timestamp > CalledAt(c) - CooldownMinutes
    ]_vars

\* ---------------------------------------------------------------- C24
\* C24 (as stated): a sweep appends a sample, makes a send or appends a log
\* row for a video only while the stored status of the video is active.
C24_PausedIsLeftAlone ==
  [][ /\ \A k \in 1..Len(video_views') :
           (k > Len(video_views) /\ video_views'[k].tick > 0)
             => videos[video_views'[k].video_id].status = "active"
      /\ \A k \in 1..Len(notifications_log') :
           (k > Len(notifications_log) /\ notifications_log'[k].tick > 0)
             => videos[notifications_log'[k].video_id].status = "active"
      /\ \A e \in Sends' \ Sends : videos[e.video_id].status = "active"
    ]_vars

\* ---------------------------------------------------------------- C25
\* C25: the run of a video in a tick knows one level, the one its rate was
\* classified at: every suppression query, send and log row of the video in
\* that tick carries it, and a rate at or above the emergency threshold is
\* classified emergency, so that nothing of level warning is produced for
\* it, whatever the outcome of the suppression query.
C25_OneTierPerTick ==
  \A c \in Classified :
    /\ c.val >= videos[c.video_id].emergency_threshold
         => c.level = "emergency"
    /\ \A x \in Checks \cup Sends :
         (x.tick = c.tick /\ x.video_id = c.video_id) => x.level = c.level
    /\ \A k \in RowsOf(c.tick, c.video_id) :
         notifications_log[k].alert_level = c.level

\* the emergency call of a tick was suppressed and the run of the video
\* ended with no send and no row of the tick, although the rate was at or
\* above the warning threshold as well
C25_Witness ==
  \E c \in Classified, x \in Checks :
    /\ c.level = "emergency"
    /\ c.val >= videos[c.video_id].warning_threshold
    /\ x.tick = c.tick /\ x.video_id = c.video_id
    /\ x.type = "suppressed"
    /\ c.video_id \in EndedIn(c.tick)
    /\ SendsOf(c.tick, c.video_id) = {}
    /\ RowsOf(c.tick, c.video_id) = {}

\* ---------------------------------------------------------------- C26
\* an emergency row of a dispatch written in the running minute
FreshEmergencyRow ==
  \E k \in 1..Len(notifications_log) :
    /\ notifications_log[k].alert_level = "emergency"
    /\ notifications_log[k].status \in {"delivered", "failed"}
    /\ ~notifications_log[k].test
    /\ notifications_log[k].timestamp = now

\* C26: while the video stays active with a rate at or above its emergency
\* threshold in every tick and neither the fetch nor the store fails, again
\* and again a minute comes in which an emergency row is written, and again
\* and again a minute in which none is (the cooldown).
C26_SuppressionNotPermanent ==
  /\ []<>FreshEmergencyRow
  /\ []<>~FreshEmergencyRow

\* a dispatch is under way while the log still holds the emergency row of
\* the dispatch before it, by now exactly one cooldown old
C26_Witness ==
  \E s \in Sweeps :
    /\ sweep[s].pc = "send" /\ sweep[s].alertLevel = "emergency"
    /\ \E k \in 1..Len(notifications_log) :
         /\ notifications_log[k].alert_level = "emergency"
         /\ notifications_log[k].video_id = sweep[s].video.id
         /\ notifications_log[k].timestamp = now - CooldownMinutes

\* ---------------------------------------------------------------- C27
\* C27 (as stated): every row of the log, whoever wrote it, has level
\* warning or emergency, the threshold of its video for that level, and a
\* rate at or above that threshold.
C27_RowsCarryLevelThresholdRate ==
  \A k \in 1..Len(notifications_log) :
    LET row == notifications_log[k]
    IN /\ row.alert_level \in {"warning", "emergency"}
       /\ row.threshold = ThresholdOf(videos[row.video_id], row.alert_level)
       /\ row.views_per_minute >= row.threshold

\* ---------------------------------------------------------------- C28
\* C28 (as stated): when a tick appends its sample and classifies a rate,
\* that rate is the difference of the two newest samples of the video in the
\* table right after the append, the rate GET /api/videos then reports.
C28_RateOfTheTwoNewest ==
  [][ \A c \in Classified' \ Classified :
        Len(video_views') > Len(video_views) =>
          LET viewsData == LatestViews(video_views', c.video_id, 2)
          IN /\ Len(viewsData) >= 2
             /\ c.val = viewsData[1].views - viewsData[2].views ]_vars

\* ---------------------------------------------------------------- C29
\* C29 (as stated): a video is stored only by an add request that succeeded,
\* and then with its first sample: every stored video whose add request has
\* ended has exactly one sample written by that request.
C29_AddIsAllOrNothing ==
  \A id \in DOMAIN videos \ adding :
    Cardinality({k \in 1..Len(video_views) :
                   /\ video_views[k].video_id = id
                   /\ video_views[k].tick = 0}) = 1

\* ---------------------------------------------------------------- C30
\* C30 (as stated): for every stored video, GET /api/videos and
\* GET /api/videos/:id report the same current views, rate and level.
C30_ListAndDetailAgree ==
  \A id \in DOMAIN videos : ListStats(id) = DetailStats(id)

====
